---- MODULE Spec2Model ----
(***************************************************************************)
(* Trackmates: the backend server bootstrap (BaseServerApplication), its   *)
(* error handler, the courses controller, the user-courses thunks of the   *)
(* frontend and the NotificationListItem component, as state machines.     *)
(***************************************************************************)
EXTENDS Naturals, Sequences, FiniteSets, TLC

VARIABLES
    \* ---- BaseServerApplication ----
    apis,         \* this.apis: the APIs given to the constructor
    pc,           \* where init() stands
    steps,        \* the calls made on app, logger, services and database, in order
    log,          \* this.logger: the entries logged so far, in order
    appRoutes,    \* the RouteOptions handed to this.app.route, in order
    mw,           \* per API: where its callback of initMiddlewares stands
    mwEvents,     \* starts and ends of the swagger registrations, in order
    mwResult,     \* the promise Promise.all returns in initMiddlewares
    listenRaised, \* what app.listen threw
    initError,    \* what init() rejected with
    \* ---- the error handler installed by initErrorHandler ----
    thrown,       \* the error fastify hands to the handler
    hpc,          \* "raised" before the handler ran, "replied" after
    sent,         \* the responses sent on the reply, in order
    \* ---- CourseController ----
    req,          \* per request to GET ROOT: where its handler stands
    \* ---- user-courses thunks ----
    runs,         \* per dispatched thunk: where it stands
    notifications,\* the calls of notification.success, in order
    \* ---- NotificationListItem ----
    statusOf,     \* the status the parent holds of each notification, by id
    visible,      \* whether the item is in the view now
    isRead,       \* isRead of the last render
    effectPending,\* whether the effect of the last render is still to come
    notificationId,\* notification.id of the last render
    onRead,       \* the identity of the onRead callback of the last render
    inView,       \* inView of useInView at the last render
    deps,         \* the dependency list of the last run of the effect
    effectRan,    \* whether the effect of the last render ran its function
    onReadCalls,  \* the calls of onRead, in order
    sinceChange   \* the calls of onRead since in view, status, callback or id last changed

serverVars == <<apis, pc, steps, log, appRoutes, mw, mwEvents, mwResult,
                listenRaised, initError>>
handlerVars == <<thrown, hpc, sent>>
courseVars == <<req>>
thunkVars == <<runs, notifications>>
itemVars == <<statusOf, visible, notificationId, onRead, inView, isRead,
              effectPending, deps, effectRan, onReadCalls, sinceChange>>
vars == <<serverVars, handlerVars, courseVars, thunkVars, itemVars>>

\* ---- bounds ----
MaxIssues == 2
MaxApis == 2
MaxRoutes == 2
MaxRequests == 3
MaxRuns == 2
MaxCalls == 3

\* A field that is absent (undefined).
Undefined == "undefined"

\* An optional value: None, or Some(x).
None == <<>>
Some(x) == <<x>>

Range(s) == {s[i] : i \in 1..Len(s)}

SeqsUpTo(S, n) == UNION {[1..k -> S] : k \in 0..n}

\* Array.prototype.flatMap, on a list of lists
RECURSIVE Flatten(_)
Flatten(ss) == IF ss = <<>> THEN <<>> ELSE Head(ss) \o Flatten(Tail(ss))

\* ---- idle values of each component ----
IdleServer ==
    /\ apis = <<>>
    /\ pc = "off"
    /\ steps = <<>>
    /\ appRoutes = <<>>
    /\ mw = <<>>
    /\ mwEvents = <<>>
    /\ mwResult = [state |-> "none", error |-> None]
    /\ listenRaised = None
    /\ initError = None

IdleHandler ==
    /\ thrown = None
    /\ hpc = "off"
    /\ sent = <<>>

IdleCourse == req = <<>>

IdleThunks ==
    /\ runs = <<>>
    /\ notifications = <<>>

IdleItem ==
    /\ statusOf = <<>>
    /\ visible = FALSE
    /\ isRead = FALSE
    /\ effectPending = FALSE
    /\ notificationId = 0
    /\ onRead = Undefined
    /\ inView = FALSE
    /\ deps = None
    /\ effectRan = FALSE
    /\ onReadCalls = <<>>
    /\ sinceChange = 0

(***************************************************************************)
(* The error handler (initErrorHandler).                                   *)
(***************************************************************************)
ErrorMessages == {"bad input", "boom"}
IssueMessages == {"Required", "Too short"}
IssuePaths == {<<"email">>, <<"user", "name">>}
HTTPErrorStatuses == {"BAD_REQUEST", "UNPROCESSED_ENTITY", "INTERNAL_SERVER_ERROR"}

Issue == [message : IssueMessages, path : IssuePaths]

\* The errors fastify hands to the handler: FastifyError | ValidationError,
\* either of which may be an HTTPError. hasIssues is ("issues" in error).
Errors ==
    { [message |-> m, hasIssues |-> i[1], issues |-> i[2],
       isHTTPError |-> h[1], status |-> h[2]] :
        m \in ErrorMessages,
        i \in ({<<FALSE, <<>>>>} \cup {<<TRUE, s>> : s \in SeqsUpTo(Issue, MaxIssues)}),
        h \in ({<<FALSE, Undefined>>} \cup {<<TRUE, s>> : s \in HTTPErrorStatuses}) }

\* Array.prototype.toString of a path: its entries joined by commas
RECURSIVE PathToString(_)
PathToString(path) ==
    IF path = <<>> THEN ""
    ELSE IF Len(path) = 1 THEN path[1]
    ELSE path[1] \o "," \o PathToString(Tail(path))

\* A mapping that drops the path of an issue.
DetailWithoutPath(issue) == [message |-> issue.message, path |-> <<>>]

Detail(issue) == [message |-> issue.message, path |-> issue.path]

\* (the dashes of the source's messages are written "-": the module is ASCII)
IssueLogLine(issue) ==
    [level |-> "error",
     message |-> "[" \o PathToString(issue.path) \o "] - " \o issue.message]

\* What the handler logs for `error`.
HandlerLog(error) ==
    IF error.hasIssues
    THEN <<[level |-> "error", message |-> "[Validation Error]: " \o error.message]>>
         \o [i \in 1..Len(error.issues) |-> IssueLogLine(error.issues[i])]
    ELSE IF error.isHTTPError
    THEN <<[level |-> "error",
            message |-> "[HTTP Error]: " \o error.status \o " - " \o error.message]>>
    ELSE <<[level |-> "error", message |-> error.message]>>

\* A handler that tests (error instanceof HTTPError) before ("issues" in error).
HandlerReplyHTTPFirst(error) ==
    IF error.isHTTPError
    THEN [status |-> error.status,
          body |-> [errorType |-> "COMMON", message |-> error.message]]
    ELSE IF error.hasIssues
    THEN [status |-> "UNPROCESSED_ENTITY",
          body |-> [details |-> [i \in 1..Len(error.issues) |->
                                     Detail(error.issues[i])],
                    errorType |-> "VALIDATION",
                    message |-> error.message]]
    ELSE [status |-> "INTERNAL_SERVER_ERROR",
          body |-> [errorType |-> "COMMON", message |-> error.message]]

\* What the handler sends for `error`: reply.status(...).send(response).
HandlerReply(error) ==
    IF error.hasIssues
    THEN [status |-> "UNPROCESSED_ENTITY",
          body |-> [details |-> [i \in 1..Len(error.issues) |->
                                     Detail(error.issues[i])],
                    errorType |-> "VALIDATION",
                    message |-> error.message]]
    ELSE IF error.isHTTPError
    THEN [status |-> error.status,
          body |-> [errorType |-> "COMMON", message |-> error.message]]
    ELSE [status |-> "INTERNAL_SERVER_ERROR",
          body |-> [errorType |-> "COMMON", message |-> error.message]]

InitHandler ==
    /\ thrown \in Errors
    /\ hpc = "raised"
    /\ sent = <<>>
    /\ log = <<>>
    /\ IdleServer /\ IdleCourse /\ IdleThunks /\ IdleItem

\* The handler runs on the error a request raised.
ErrorHandler ==
    /\ hpc = "raised"
    /\ log' = log \o HandlerLog(thrown)
    /\ sent' = Append(sent, HandlerReply(thrown))
    /\ hpc' = "replied"
    /\ UNCHANGED <<thrown, apis, pc, steps, appRoutes, mw, mwEvents, mwResult,
                   listenRaised, initError, courseVars, thunkVars, itemVars>>

NextHandler == ErrorHandler

SpecHandler == InitHandler /\ [][NextHandler]_vars

\* C1: every error handed to the handler gets exactly one response; an error
\* with an 'issues' field gets UNPROCESSED_ENTITY and VALIDATION, HTTPError or
\* not; otherwise an HTTPError gets its own status and COMMON; otherwise
\* INTERNAL_SERVER_ERROR and COMMON; the message is the error's, unchanged.
C1_StatusByPriority ==
    hpc = "replied" =>
        /\ Len(sent) = 1
        /\ sent[1].body.message = thrown.message
        /\ thrown.hasIssues =>
               /\ sent[1].status = "UNPROCESSED_ENTITY"
               /\ sent[1].body.errorType = "VALIDATION"
        /\ (~thrown.hasIssues /\ thrown.isHTTPError) =>
               /\ sent[1].status = thrown.status
               /\ sent[1].body.errorType = "COMMON"
        /\ (~thrown.hasIssues /\ ~thrown.isHTTPError) =>
               /\ sent[1].status = "INTERNAL_SERVER_ERROR"
               /\ sent[1].body.errorType = "COMMON"

\* An HTTPError with status BAD_REQUEST and an 'issues' field has been answered.
C1_Witness ==
    /\ hpc = "replied"
    /\ thrown.hasIssues /\ thrown.isHTTPError /\ thrown.status = "BAD_REQUEST"
    /\ sent[1].status = "UNPROCESSED_ENTITY"

\* C2: the details of a validation response are the issues of the error, one
\* entry per issue, in order, each with the message and the path of its issue;
\* no issues give no details, and still a VALIDATION response.
C2_DetailsMirrorIssues ==
    (hpc = "replied" /\ thrown.hasIssues) =>
        /\ sent[1].body.errorType = "VALIDATION"
        /\ Len(sent[1].body.details) = Len(thrown.issues)
        /\ \A i \in 1..Len(thrown.issues) :
               /\ sent[1].body.details[i].message = thrown.issues[i].message
               /\ sent[1].body.details[i].path = thrown.issues[i].path
        /\ (thrown.issues = <<>>) => (sent[1].body.details = <<>>)

\* A validation error with two different issues has been answered.
C2_Witness ==
    /\ hpc = "replied" /\ thrown.hasIssues
    /\ Len(thrown.issues) = 2
    /\ thrown.issues[1] /= thrown.issues[2]
    /\ Len(sent[1].body.details) = 2

(***************************************************************************)
(* CourseController.                                                       *)
(***************************************************************************)
CourseLists == {<<>>, <<"course 1">>, <<"course 1", "course 2">>}
ServiceErrors == {"database is down", "vendor is unavailable"}
Requests == 1..MaxRequests

\* The route the constructor adds.
CourseControllerRoutes ==
    <<[handler |-> "findAllByVendor", method |-> "GET", path |-> "ROOT"]>>

NoRequest ==
    [pc |-> "none", serviceCalls |-> 0, resolved |-> None, failed |-> None,
     response |-> None, rejection |-> None]

InitCourse ==
    /\ req = [r \in Requests |-> NoRequest]
    /\ log = <<>>
    /\ IdleServer /\ IdleHandler /\ IdleThunks /\ IdleItem

\* A request to GET ROOT: the route's handler calls findAllByVendor, which
\* calls the service and awaits it.
FindAllByVendor(r) ==
    /\ req[r].pc = "none"
    /\ \E route \in Range(CourseControllerRoutes) :
           /\ route.method = "GET" /\ route.path = "ROOT"
           /\ route.handler = "findAllByVendor"
    /\ req' = [req EXCEPT ![r].pc = "awaiting",
                          ![r].serviceCalls = req[r].serviceCalls + 1]
    /\ UNCHANGED <<serverVars, handlerVars, thunkVars, itemVars>>

\* The service resolves with `courses`: the handler returns the response.
ServiceResolves(r, courses) ==
    /\ req[r].pc = "awaiting"
    /\ req' = [req EXCEPT ![r].pc = "returned",
                          ![r].resolved = Some(courses),
                          ![r].response = Some([payload |-> courses, status |-> "OK"])]
    /\ UNCHANGED <<serverVars, handlerVars, thunkVars, itemVars>>

\* A handler that answers a failure of the service with an empty list.
ServiceRejectsSwallowed(r, error) ==
    /\ req[r].pc = "awaiting"
    /\ req' = [req EXCEPT ![r].pc = "returned",
                          ![r].failed = Some(error),
                          ![r].response = Some([payload |-> <<>>, status |-> "OK"])]
    /\ UNCHANGED <<serverVars, handlerVars, thunkVars, itemVars>>

\* The service rejects with `error`: the await throws, the handler rejects.
ServiceRejects(r, error) ==
    /\ req[r].pc = "awaiting"
    /\ req' = [req EXCEPT ![r].pc = "rejected",
                          ![r].failed = Some(error),
                          ![r].rejection = Some(error)]
    /\ UNCHANGED <<serverVars, handlerVars, thunkVars, itemVars>>

NextCourse ==
    \E r \in Requests :
        \/ FindAllByVendor(r)
        \/ \E courses \in CourseLists : ServiceResolves(r, courses)
        \/ \E error \in ServiceErrors : ServiceRejects(r, error)

SpecCourse == InitCourse /\ [][NextCourse]_vars

\* C3: a request calls the service exactly once; when the service resolves the
\* handler returns status OK and the resolved value as the payload; when it
\* rejects the handler rejects with that error and returns no response.
C3_FindAllByVendor ==
    \A r \in Requests :
        /\ req[r].pc /= "none" => req[r].serviceCalls = 1
        /\ req[r].resolved /= None =>
               /\ Len(req[r].response) = 1
               /\ req[r].response[1].status = "OK"
               /\ req[r].response[1].payload = req[r].resolved[1]
               /\ req[r].rejection = None
        /\ req[r].failed /= None =>
               /\ req[r].rejection = req[r].failed
               /\ req[r].response = None

\* One request was answered with two courses while another was rejected.
C3_Witness ==
    \E r1, r2 \in Requests :
        /\ req[r1].resolved /= None /\ Len(req[r1].response[1].payload) = 2
        /\ req[r2].failed /= None /\ req[r2].rejection = Some("database is down")

(***************************************************************************)
(* BaseServerApplication: addRoute, addRoutes, initRoutes.                 *)
(***************************************************************************)
\* The route parameters the controllers declare: without preHandlers and
\* validation, with both, with an empty preHandlers list and a partial
\* validation, with preHandlers only.
RouteParameters ==
    { [handler |-> "findAllByVendor", method |-> "GET", path |-> "/courses",
       preHandlers |-> None, validation |-> None],
      [handler |-> "create", method |-> "POST", path |-> "/users",
       preHandlers |-> Some(<<"checkPermission">>),
       validation |-> Some([body |-> "createBody", params |-> Undefined,
                            query |-> Undefined])],
      [handler |-> "find", method |-> "GET", path |-> "/users/:id",
       preHandlers |-> Some(<<>>),
       validation |-> Some([body |-> Undefined, params |-> "idParams",
                            query |-> "searchQuery"])],
      [handler |-> "delete", method |-> "DELETE", path |-> "/users/:id",
       preHandlers |-> Some(<<"checkPermission", "checkOwner">>),
       validation |-> None] }

Version(i) == "v" \o ToString(i)

Routers(as) == Flatten([i \in 1..Len(as) |-> as[i].routes])

\* fastify refuses a second route with the same method and url.
DistinctRoutes(as) ==
    LET routers == Routers(as)
    IN  \A i, j \in 1..Len(routers) :
            (routers[i].method = routers[j].method
                /\ routers[i].path = routers[j].path) => i = j

\* The lists of APIs the constructor is given, each API with at most
\* `maxRoutes` routes.
ApiListsWith(maxRoutes) ==
    { as \in UNION { [1..n -> [version : {Undefined},
                               routes : SeqsUpTo(RouteParameters, maxRoutes)]] :
                     n \in 0..MaxApis } : DistinctRoutes(as) }

ApiLists == ApiListsWith(MaxRoutes)

WithVersions(as) == [i \in 1..Len(as) |-> [as[i] EXCEPT !.version = Version(i)]]

LogEntry(level, message) == [level |-> level, message |-> message]

\* The entry of `steps` for a call of the logger.
LogStep(level, message) == "logger." \o level \o " " \o message

\* A route whose querystring schema is taken from validation.params.
RouteOptionsQueryFromParams(parameters) ==
    [handler |-> parameters.handler,
     method |-> parameters.method,
     schema |-> [body |-> IF parameters.validation = None THEN Undefined
                          ELSE parameters.validation[1].body,
                 params |-> IF parameters.validation = None THEN Undefined
                            ELSE parameters.validation[1].params,
                 querystring |-> IF parameters.validation = None THEN Undefined
                                 ELSE parameters.validation[1].params],
     url |-> parameters.path,
     preHandler |-> IF parameters.preHandlers = None THEN <<>>
                    ELSE parameters.preHandlers[1]]

\* addRoute: the RouteOptions built from the parameters.
RouteOptions(parameters) ==
    [handler |-> parameters.handler,
     method |-> parameters.method,
     schema |-> [body |-> IF parameters.validation = None THEN Undefined
                          ELSE parameters.validation[1].body,
                 params |-> IF parameters.validation = None THEN Undefined
                            ELSE parameters.validation[1].params,
                 querystring |-> IF parameters.validation = None THEN Undefined
                                 ELSE parameters.validation[1].query],
     url |-> parameters.path,
     preHandler |-> IF parameters.preHandlers = None THEN <<>>
                    ELSE parameters.preHandlers[1]]

RouteMessage(parameters) ==
    "Route: " \o parameters.method \o " " \o parameters.path \o " is registered"

RouteStep(parameters) == "app.route " \o parameters.method \o " " \o parameters.path

\* addRoute: this.app.route(routeParameters), then logger.info.
AddRouteSteps(parameters) ==
    <<RouteStep(parameters), LogStep("info", RouteMessage(parameters))>>

AddRouteLog(parameters) == LogEntry("info", RouteMessage(parameters))

\* addRoutes: addRoute on each of the parameters, in order.
AddRoutesSteps(parameters) ==
    Flatten([i \in 1..Len(parameters) |-> AddRouteSteps(parameters[i])])
AddRoutesLog(parameters) == [i \in 1..Len(parameters) |-> AddRouteLog(parameters[i])]
AddRoutesRoutes(parameters) == [i \in 1..Len(parameters) |-> RouteOptions(parameters[i])]

\* The calls the constructor makes on app: Fastify(...) builds it, and the
\* registration of fastifyCors is begun and not awaited.
ConstructorSteps == <<"register cors">>

\* The application as the constructor leaves it, given the APIs `as`.
Constructed(as) ==
    /\ apis = as
    /\ pc = "new"
    /\ steps = ConstructorSteps
    /\ log = <<>>
    /\ appRoutes = <<>>
    /\ mw = [a \in 1..Len(as) |-> "idle"]
    /\ mwEvents = <<>>
    /\ mwResult = [state |-> "none", error |-> None]
    /\ listenRaised = None
    /\ initError = None

InitRoutesOnly ==
    /\ \E as \in ApiLists : Constructed(WithVersions(as))
    /\ IdleHandler /\ IdleCourse /\ IdleThunks /\ IdleItem

\* initRoutes (public): flatMap of the APIs' routes, then addRoutes.
InitRoutes ==
    /\ pc = "new"
    /\ appRoutes' = appRoutes \o AddRoutesRoutes(Routers(apis))
    /\ steps' = steps \o AddRoutesSteps(Routers(apis))
    /\ log' = log \o AddRoutesLog(Routers(apis))
    /\ pc' = "routes"
    /\ UNCHANGED <<apis, mw, mwEvents, mwResult, listenRaised, initError,
                   handlerVars, courseVars, thunkVars, itemVars>>

NextRoutes == InitRoutes

SpecRoutes == InitRoutesOnly /\ [][NextRoutes]_vars

\* The routes of the APIs before API i.
RECURSIVE RoutesBefore(_)
RoutesBefore(i) == IF i <= 1 THEN 0 ELSE RoutesBefore(i - 1) + Len(apis[i - 1].routes)

\* The calls made since the constructor returned.
RouteSteps == SubSeq(steps, Len(ConstructorSteps) + 1, Len(steps))

\* C6: initRoutes registers every route of every API exactly once, in the
\* order of the APIs and of each API's routes, and logs one 'is registered'
\* message per route right after registering it; a registered route has the
\* handler, method and path of its parameters, the validation's body, params
\* and query as the schema's body, params and querystring, and no pre-handlers
\* when the parameters declare none.
C6_InitRoutes ==
    pc = "routes" =>
        /\ Len(appRoutes) = RoutesBefore(Len(apis) + 1)
        /\ SubSeq(steps, 1, Len(ConstructorSteps)) = ConstructorSteps
        /\ Len(RouteSteps) = 2 * Len(appRoutes)
        /\ Len(log) = Len(appRoutes)
        /\ \A i \in 1..Len(apis) : \A j \in 1..Len(apis[i].routes) :
               LET k == RoutesBefore(i) + j
                   parameters == apis[i].routes[j]
                   message == "Route: " \o parameters.method \o " "
                                  \o parameters.path \o " is registered"
               IN  /\ appRoutes[k].handler = parameters.handler
                   /\ appRoutes[k].method = parameters.method
                   /\ appRoutes[k].url = parameters.path
                   /\ parameters.validation = None =>
                          appRoutes[k].schema =
                              [body |-> Undefined, params |-> Undefined,
                               querystring |-> Undefined]
                   /\ parameters.validation /= None =>
                          /\ appRoutes[k].schema.body = parameters.validation[1].body
                          /\ appRoutes[k].schema.params = parameters.validation[1].params
                          /\ appRoutes[k].schema.querystring =
                                 parameters.validation[1].query
                   /\ parameters.preHandlers = None => appRoutes[k].preHandler = <<>>
                   /\ parameters.preHandlers /= None =>
                          appRoutes[k].preHandler = parameters.preHandlers[1]
                   /\ RouteSteps[2 * k - 1] =
                          "app.route " \o parameters.method \o " " \o parameters.path
                   /\ RouteSteps[2 * k] = "logger.info " \o message
                   /\ log[k] = [level |-> "info", message |-> message]

\* Two APIs with two routes each were registered, one route without
\* preHandlers and one with a query validation.
C6_Witness ==
    /\ pc = "routes"
    /\ Len(apis) = 2 /\ Len(apis[1].routes) = 2 /\ Len(apis[2].routes) = 2
    /\ Len(appRoutes) = 4
    /\ apis[2].routes[1].preHandlers = None
    /\ appRoutes[2].schema.querystring = "searchQuery"

(***************************************************************************)
(* BaseServerApplication: init, initMiddlewares.                           *)
(***************************************************************************)
Port == "3001"
Environment == "development"

\* What a registration or app.listen may throw: Error instances, and a value
\* that is no Error.
RegisterErrors == {[isError |-> TRUE, message |-> "plugin failed"]}
ListenErrors ==
    { [isError |-> TRUE, message |-> "EADDRINUSE"],
      [isError |-> TRUE, message |-> "EACCES"],
      [isError |-> FALSE, message |-> "closed"] }

Apis == 1..Len(apis)

\* (the APIs have at most one route each here: what initRoutes makes of longer
\* lists of routes is the subject of SpecRoutes)
InitServer ==
    /\ \E as \in ApiListsWith(1) : Constructed(WithVersions(as))
    /\ IdleHandler /\ IdleCourse /\ IdleThunks /\ IdleItem

unchangedByInit == <<handlerVars, courseVars, thunkVars, itemVars>>

\* init() rejects with `error`.
Reject(error) ==
    /\ pc' = "rejected"
    /\ initError' = Some(error)

\* init() up to its first await: the log line, and initServe up to its await.
InitBegins ==
    /\ pc = "new"
    /\ log' = Append(log, LogEntry("info", "Application initialization..."))
    /\ steps' = steps \o <<LogStep("info", "Application initialization..."),
                           "register static">>
    /\ pc' = "serve"
    /\ UNCHANGED <<apis, appRoutes, mw, mwEvents, mwResult, listenRaised,
                   initError, unchangedByInit>>

SwaggerMessage(api) == "Generate swagger documentation for API " \o api.version

\* The callback of initMiddlewares on one API, up to its first await.
MiddlewareBegins(api) ==
    <<LogStep("info", SwaggerMessage(api)), "register swagger " \o api.version>>

\* A callback that begins both registrations before it awaits either.
BegunAtStartBoth(a) ==
    <<[event |-> "swagger begins", api |-> a],
      [event |-> "swaggerUi begins", api |-> a]>>

\* The registrations a callback of initMiddlewares has begun when it first
\* awaits: the one of swagger.
BegunAtStart(a) == <<[event |-> "swagger begins", api |-> a]>>

\* The registration of fastifyStatic is done: setNotFoundHandler, and
\* initMiddlewares maps its callback over the APIs, each callback running up
\* to its first await; Promise.all of no promise is resolved.
ServeRegistered ==
    /\ pc = "serve"
    /\ steps' = steps \o <<"static registered", "setNotFoundHandler",
                           "initMiddlewares">>
                      \o Flatten([i \in 1..Len(apis) |-> MiddlewareBegins(apis[i])])
    /\ log' = log \o [a \in Apis |-> LogEntry("info", SwaggerMessage(apis[a]))]
    /\ mw' = [a \in Apis |-> "swagger"]
    /\ mwEvents' = mwEvents \o Flatten([a \in Apis |-> BegunAtStart(a)])
    /\ mwResult' = [state |-> IF apis = <<>> THEN "resolved" ELSE "pending",
                    error |-> None]
    /\ pc' = "middlewares"
    /\ UNCHANGED <<apis, appRoutes, listenRaised, initError, unchangedByInit>>

ServeFails(error) ==
    /\ pc = "serve"
    /\ Reject(error)
    /\ UNCHANGED <<apis, steps, log, appRoutes, mw, mwEvents, mwResult,
                   listenRaised, unchangedByInit>>

\* Promise.all after a callback has rejected with `error`: the first
\* rejection settles it.
AllAfterReject(error) ==
    IF mwResult.state = "pending"
    THEN [state |-> "rejected", error |-> Some(error)]
    ELSE mwResult

\* Promise.all after the callback on `a` has resolved: resolved once every
\* callback has.
AllAfterResolve(a) ==
    IF mwResult.state = "pending" /\ \A b \in Apis \ {a} : mw[b] = "done"
    THEN [state |-> "resolved", error |-> None]
    ELSE mwResult

\* The registration of swagger for API `a` is done: the callback goes on to
\* register swaggerUi and awaits it.
SwaggerRegistered(a) ==
    /\ mw[a] = "swagger"
    /\ mw' = [mw EXCEPT ![a] = "swaggerUi"]
    /\ mwEvents' = mwEvents \o <<[event |-> "swagger ends", api |-> a],
                                 [event |-> "swaggerUi begins", api |-> a]>>
    /\ steps' = Append(steps, "register swaggerUi " \o apis[a].version)
    /\ UNCHANGED <<apis, pc, log, appRoutes, mwResult, listenRaised, initError,
                   unchangedByInit>>

SwaggerFails(a, error) ==
    /\ mw[a] = "swagger"
    /\ mw' = [mw EXCEPT ![a] = "failed"]
    /\ mwEvents' = Append(mwEvents, [event |-> "swagger fails", api |-> a])
    /\ mwResult' = AllAfterReject(error)
    /\ UNCHANGED <<apis, pc, steps, log, appRoutes, listenRaised, initError,
                   unchangedByInit>>

SwaggerUiRegistered(a) ==
    /\ mw[a] = "swaggerUi"
    /\ mw' = [mw EXCEPT ![a] = "done"]
    /\ mwEvents' = Append(mwEvents, [event |-> "swaggerUi ends", api |-> a])
    /\ mwResult' = AllAfterResolve(a)
    /\ UNCHANGED <<apis, pc, steps, log, appRoutes, listenRaised, initError,
                   unchangedByInit>>

SwaggerUiFails(a, error) ==
    /\ mw[a] = "swaggerUi"
    /\ mw' = [mw EXCEPT ![a] = "failed"]
    /\ mwEvents' = Append(mwEvents, [event |-> "swaggerUi fails", api |-> a])
    /\ mwResult' = AllAfterReject(error)
    /\ UNCHANGED <<apis, pc, steps, log, appRoutes, listenRaised, initError,
                   unchangedByInit>>

\* initMiddlewares has resolved: initValidationCompiler, initErrorHandler,
\* and initPlugins up to its first await.
MiddlewaresResolved ==
    /\ pc = "middlewares"
    /\ mwResult.state = "resolved"
    /\ steps' = steps \o <<"middlewares registered", "setValidatorCompiler",
                           "setErrorHandler", "register authorization">>
    /\ pc' = "authorization"
    /\ UNCHANGED <<apis, log, appRoutes, mw, mwEvents, mwResult, listenRaised,
                   initError, unchangedByInit>>

MiddlewaresRejected ==
    /\ pc = "middlewares"
    /\ mwResult.state = "rejected"
    /\ Reject(mwResult.error[1])
    /\ UNCHANGED <<apis, steps, log, appRoutes, mw, mwEvents, mwResult,
                   listenRaised, unchangedByInit>>

\* What init() does from initRoutes to the call of app.listen.
RoutesToListen ==
    /\ appRoutes' = appRoutes \o AddRoutesRoutes(Routers(apis))
    /\ log' = log \o AddRoutesLog(Routers(apis))
    /\ pc' = "listen"

RoutesToListenSteps ==
    <<"initRoutes">> \o AddRoutesSteps(Routers(apis))
        \o <<"socket.initialize", "initCrone", "database.connect", "listen">>

\* An initPlugins that does not await the registration of fileUpload.
AuthorizationRegisteredNoAwait ==
    /\ pc = "authorization"
    /\ steps' = steps \o <<"authorization registered", "register fileUpload">>
                      \o RoutesToListenSteps
    /\ RoutesToListen
    /\ UNCHANGED <<apis, mw, mwEvents, mwResult, listenRaised, initError,
                   unchangedByInit>>

\* The registration of authorization is done: initPlugins registers
\* fileUpload and awaits it.
AuthorizationRegistered ==
    /\ pc = "authorization"
    /\ steps' = steps \o <<"authorization registered", "register fileUpload">>
    /\ pc' = "fileUpload"
    /\ UNCHANGED <<apis, log, appRoutes, mw, mwEvents, mwResult, listenRaised,
                   initError, unchangedByInit>>

AuthorizationFails(error) ==
    /\ pc = "authorization"
    /\ Reject(error)
    /\ UNCHANGED <<apis, steps, log, appRoutes, mw, mwEvents, mwResult,
                   listenRaised, unchangedByInit>>

\* The registration of fileUpload is done: initRoutes, initSocket, initCrons,
\* database.connect, and app.listen is called and awaited.
FileUploadRegistered ==
    /\ pc = "fileUpload"
    /\ steps' = steps \o <<"fileUpload registered">> \o RoutesToListenSteps
    /\ RoutesToListen
    /\ UNCHANGED <<apis, mw, mwEvents, mwResult, listenRaised, initError,
                   unchangedByInit>>

FileUploadFails(error) ==
    /\ pc = "fileUpload"
    /\ Reject(error)
    /\ UNCHANGED <<apis, steps, log, appRoutes, mw, mwEvents, mwResult,
                   listenRaised, unchangedByInit>>

ListeningMessage ==
    "Application is listening on PORT - " \o Port \o ", on ENVIRONMENT - "
        \o Environment \o "."

\* app.listen resolves: the info line, and init() resolves.
ListenSucceeds ==
    /\ pc = "listen"
    /\ log' = Append(log, LogEntry("info", ListeningMessage))
    /\ steps' = Append(steps, LogStep("info", ListeningMessage))
    /\ pc' = "resolved"
    /\ UNCHANGED <<apis, appRoutes, mw, mwEvents, mwResult, listenRaised,
                   initError, unchangedByInit>>

\* A catch block that logs and does not throw again.
ListenFailsSwallowed(error) ==
    /\ pc = "listen"
    /\ listenRaised' = Some(error)
    /\ log' = IF error.isError
              THEN Append(log, LogEntry("error", error.message)) ELSE log
    /\ steps' = IF error.isError
                THEN Append(steps, LogStep("error", error.message)) ELSE steps
    /\ pc' = "resolved"
    /\ UNCHANGED <<apis, appRoutes, mw, mwEvents, mwResult, initError,
                   unchangedByInit>>

\* app.listen throws `error`: the catch block logs it when it is an Error,
\* and throws it again.
ListenFails(error) ==
    /\ pc = "listen"
    /\ listenRaised' = Some(error)
    /\ log' = IF error.isError
              THEN Append(log, LogEntry("error", error.message)) ELSE log
    /\ steps' = IF error.isError
                THEN Append(steps, LogStep("error", error.message)) ELSE steps
    /\ Reject(error)
    /\ UNCHANGED <<apis, appRoutes, mw, mwEvents, mwResult, unchangedByInit>>

NextServer ==
    \/ InitBegins
    \/ ServeRegistered
    \/ \E error \in RegisterErrors : ServeFails(error)
    \/ \E a \in Apis : SwaggerRegistered(a)
    \/ \E a \in Apis : \E error \in RegisterErrors : SwaggerFails(a, error)
    \/ \E a \in Apis : SwaggerUiRegistered(a)
    \/ \E a \in Apis : \E error \in RegisterErrors : SwaggerUiFails(a, error)
    \/ MiddlewaresResolved
    \/ MiddlewaresRejected
    \/ AuthorizationRegistered
    \/ \E error \in RegisterErrors : AuthorizationFails(error)
    \/ FileUploadRegistered
    \/ \E error \in RegisterErrors : FileUploadFails(error)
    \/ ListenSucceeds
    \/ \E error \in ListenErrors : ListenFails(error)

SpecServer == InitServer /\ [][NextServer]_vars

\* The steps init() takes before it calls app.listen, as completed.
StepsBeforeListen ==
    <<"static registered", "setNotFoundHandler", "middlewares registered",
      "setValidatorCompiler", "setErrorHandler", "authorization registered",
      "fileUpload registered", "initRoutes", "socket.initialize", "initCrone",
      "database.connect">>

IsOrderedStep(step) == step \in Range(StepsBeforeListen) \cup {"listen"}

StepAt(step) == CHOOSE k \in 1..Len(steps) : steps[k] = step

\* C4: app.listen is called only after static serving and the not-found
\* handler, the swagger middlewares, the validator compiler, the error
\* handler, the authorization and file-upload plugins, the routes, the
\* socket, the crons and the database connect, each once and in this order;
\* no route is registered before the authorization plugin, the validator
\* compiler and the error handler are installed.
C4_ListenAfterSetup ==
    /\ "listen" \in Range(steps) =>
           /\ SelectSeq(steps, IsOrderedStep) = StepsBeforeListen \o <<"listen">>
           /\ \A a \in Apis : mw[a] = "done"
    /\ appRoutes /= <<>> =>
           /\ "initRoutes" \in Range(steps)
           /\ \A step \in {"authorization registered", "setValidatorCompiler",
                           "setErrorHandler"} :
                  /\ step \in Range(steps)
                  /\ StepAt(step) < StepAt("initRoutes")
           /\ \A step \in Range(AddRoutesSteps(Routers(apis))) :
                  StepAt("initRoutes") < StepAt(step)

\* app.listen was called with the routes of two APIs registered.
C4_Witness ==
    /\ pc = "listen"
    /\ Len(apis) = 2
    /\ Len(appRoutes) >= 2
    /\ "listen" \in Range(steps)

Count(seq, entry) == Cardinality({k \in 1..Len(seq) : seq[k] = entry})

ErrorEntries == {k \in 1..Len(log) : log[k].level = "error"}

\* C5: when app.listen fails, init() rejects with the error listen raised,
\* the 'Application is listening' line is not logged, and logger.error is
\* called exactly when the raised value is an Error; when app.listen
\* succeeds, the line is logged exactly once and init() resolves.
C5_ListenOutcome ==
    /\ listenRaised /= None =>
           /\ pc = "rejected"
           /\ initError = listenRaised
           /\ Count(log, LogEntry("info", ListeningMessage)) = 0
           /\ listenRaised[1].isError =>
                  /\ Cardinality(ErrorEntries) = 1
                  /\ \A k \in ErrorEntries : log[k].message = listenRaised[1].message
           /\ ~listenRaised[1].isError => ErrorEntries = {}
    /\ listenRaised = None =>
           /\ ErrorEntries = {}
           /\ Count(log, LogEntry("info", ListeningMessage)) =
                  (IF pc = "resolved" THEN 1 ELSE 0)
    /\ pc = "resolved" => (listenRaised = None /\ initError = None)

\* app.listen raised a value that is no Error, and init() rejected with it.
C5_Witness ==
    /\ pc = "rejected"
    /\ listenRaised /= None
    /\ ~listenRaised[1].isError
    /\ initError = listenRaised

Has(event, a) == \E k \in 1..Len(mwEvents) : mwEvents[k] = [event |-> event, api |-> a]

At(event, a) ==
    CHOOSE k \in 1..Len(mwEvents) : mwEvents[k] = [event |-> event, api |-> a]

\* C7: the registrations of swagger of all APIs begin before any of them
\* ends; for each API the registration of swaggerUi begins only after the one
\* of swagger has ended; initMiddlewares resolves only after both have ended
\* for every API; if a registration fails, initMiddlewares rejects.
C7_InitMiddlewares ==
    /\ mwEvents /= <<>> => \A a \in Apis : Has("swagger begins", a)
    /\ \A k \in 1..Len(mwEvents) :
           mwEvents[k].event = "swagger begins" =>
               \A m \in 1..k : mwEvents[m].event = "swagger begins"
    /\ \A a \in Apis :
           Has("swaggerUi begins", a) =>
               /\ Has("swagger ends", a)
               /\ At("swagger ends", a) < At("swaggerUi begins", a)
    /\ mwResult.state = "resolved" =>
           \A a \in Apis : Has("swagger ends", a) /\ Has("swaggerUi ends", a)
    /\ (\E a \in Apis : Has("swagger fails", a) \/ Has("swaggerUi fails", a)) =>
           mwResult.state = "rejected"
    /\ pc \in {"authorization", "fileUpload", "listen", "resolved"} =>
           mwResult.state = "resolved"

\* initMiddlewares resolved for two APIs whose registrations interleaved: the
\* second API was done before the swagger registration of the first ended.
C7_Witness ==
    /\ Len(apis) = 2
    /\ mwResult.state = "resolved"
    /\ At("swaggerUi ends", 2) < At("swagger ends", 1)

(***************************************************************************)
(* The user-courses thunks: add, loadMyCourses.                            *)
(***************************************************************************)
Runs == 1..MaxRuns
AddCourseRequests == {[vendorCourseId |-> "101"], [vendorCourseId |-> "102"]}
CourseDtos == {[id |-> "1", title |-> "TLA+"], [id |-> "2", title |-> "React"]}
LoadPayloads == {[id |-> "7", search |-> ""], [id |-> "8", search |-> "re"]}
CoursesResponses == {<<>>} \cup {<<c>> : c \in CourseDtos}
ApiErrors == {"network error"}

NoRun ==
    [thunk |-> "none", pc |-> "none", payload |-> None, apiArgument |-> None,
     apiResolved |-> None, apiFailed |-> None, fulfilled |-> None,
     rejected |-> None]

InitThunks ==
    /\ runs = [r \in Runs |-> NoRun]
    /\ notifications = <<>>
    /\ log = <<>>
    /\ IdleServer /\ IdleHandler /\ IdleCourse /\ IdleItem

unchangedByThunks == <<serverVars, handlerVars, courseVars, itemVars>>

CourseAdded(r) == [level |-> "success", message |-> "COURSE_ADDED", run |-> r]

\* An add that shows the notification before it awaits the API.
AddDispatchedNotifiesFirst(r, requestPayload) ==
    /\ runs[r].pc = "none"
    /\ runs' = [runs EXCEPT ![r].thunk = "add",
                            ![r].pc = "awaiting",
                            ![r].payload = Some(requestPayload),
                            ![r].apiArgument = Some(requestPayload)]
    /\ notifications' = Append(notifications, CourseAdded(r))
    /\ UNCHANGED unchangedByThunks

\* add is dispatched: the payload creator calls userCourseApi.add and awaits.
AddDispatched(r, requestPayload) ==
    /\ runs[r].pc = "none"
    /\ runs' = [runs EXCEPT ![r].thunk = "add",
                            ![r].pc = "awaiting",
                            ![r].payload = Some(requestPayload),
                            ![r].apiArgument = Some(requestPayload)]
    /\ UNCHANGED <<notifications, unchangedByThunks>>

\* userCourseApi.add resolves: notification.success, and the thunk fulfils
\* with the new course.
AddResolves(r, newCourse) ==
    /\ runs[r].thunk = "add" /\ runs[r].pc = "awaiting"
    /\ notifications' = Append(notifications, CourseAdded(r))
    /\ runs' = [runs EXCEPT ![r].pc = "fulfilled",
                            ![r].apiResolved = Some(newCourse),
                            ![r].fulfilled = Some(newCourse)]
    /\ UNCHANGED unchangedByThunks

\* userCourseApi.add rejects: the payload creator throws, the thunk rejects.
AddRejects(r, error) ==
    /\ runs[r].thunk = "add" /\ runs[r].pc = "awaiting"
    /\ runs' = [runs EXCEPT ![r].pc = "rejected",
                            ![r].apiFailed = Some(error),
                            ![r].rejected = Some(error)]
    /\ UNCHANGED <<notifications, unchangedByThunks>>

\* loadMyCourses is dispatched: the payload creator returns the promise of
\* userCourseApi.getAllByUserId(loadMyCoursesPayload).
LoadMyCoursesDispatched(r, loadMyCoursesPayload) ==
    /\ runs[r].pc = "none"
    /\ runs' = [runs EXCEPT ![r].thunk = "loadMyCourses",
                            ![r].pc = "awaiting",
                            ![r].payload = Some(loadMyCoursesPayload),
                            ![r].apiArgument = Some(loadMyCoursesPayload)]
    /\ UNCHANGED <<notifications, unchangedByThunks>>

LoadMyCoursesResolves(r, courses) ==
    /\ runs[r].thunk = "loadMyCourses" /\ runs[r].pc = "awaiting"
    /\ runs' = [runs EXCEPT ![r].pc = "fulfilled",
                            ![r].apiResolved = Some(courses),
                            ![r].fulfilled = Some(courses)]
    /\ UNCHANGED <<notifications, unchangedByThunks>>

LoadMyCoursesRejects(r, error) ==
    /\ runs[r].thunk = "loadMyCourses" /\ runs[r].pc = "awaiting"
    /\ runs' = [runs EXCEPT ![r].pc = "rejected",
                            ![r].apiFailed = Some(error),
                            ![r].rejected = Some(error)]
    /\ UNCHANGED <<notifications, unchangedByThunks>>

NextThunks ==
    \E r \in Runs :
        \/ \E requestPayload \in AddCourseRequests : AddDispatched(r, requestPayload)
        \/ \E newCourse \in CourseDtos : AddResolves(r, newCourse)
        \/ \E error \in ApiErrors : AddRejects(r, error)
        \/ \E payload \in LoadPayloads : LoadMyCoursesDispatched(r, payload)
        \/ \E courses \in CoursesResponses : LoadMyCoursesResolves(r, courses)
        \/ \E error \in ApiErrors : LoadMyCoursesRejects(r, error)

SpecThunks == InitThunks /\ [][NextThunks]_vars

NotificationsOf(r) == {k \in 1..Len(notifications) : notifications[k].run = r}

\* C8: a run of add shows COURSE_ADDED once, and only once userCourseApi.add
\* has resolved, and fulfils with the course the API returned; when the API
\* rejects it shows nothing and does not fulfil. A run of loadMyCourses shows
\* nothing, calls the API with its payload and fulfils with what the API
\* resolved.
C8_Thunks ==
    \A r \in Runs :
        /\ runs[r].thunk = "add" =>
               /\ Cardinality(NotificationsOf(r)) =
                      (IF runs[r].apiResolved /= None THEN 1 ELSE 0)
               /\ \A k \in NotificationsOf(r) :
                      /\ notifications[k].message = "COURSE_ADDED"
                      /\ notifications[k].level = "success"
               /\ runs[r].apiResolved /= None =>
                      /\ runs[r].pc = "fulfilled"
                      /\ runs[r].fulfilled = runs[r].apiResolved
               /\ runs[r].apiFailed /= None =>
                      /\ runs[r].pc = "rejected"
                      /\ runs[r].fulfilled = None
        /\ runs[r].thunk = "loadMyCourses" =>
               /\ NotificationsOf(r) = {}
               /\ runs[r].apiArgument = runs[r].payload
               /\ runs[r].apiResolved /= None =>
                      /\ runs[r].pc = "fulfilled"
                      /\ runs[r].fulfilled = runs[r].apiResolved
               /\ runs[r].apiFailed /= None => runs[r].fulfilled = None
        /\ runs[r].thunk = "none" => NotificationsOf(r) = {}

\* One add has fulfilled and shown its notification while another add was
\* rejected and showed none.
C8_Witness ==
    \E r1, r2 \in Runs :
        /\ runs[r1].thunk = "add" /\ runs[r1].pc = "fulfilled"
        /\ Cardinality(NotificationsOf(r1)) = 1
        /\ runs[r2].thunk = "add" /\ runs[r2].pc = "rejected"
        /\ NotificationsOf(r2) = {}

(***************************************************************************)
(* NotificationListItem.                                                   *)
(***************************************************************************)
NotificationIds == {1, 2}
Callbacks == {"handleRead", "handleReadAgain"}
NotificationStatus == {"unread", "read"}

\* const isRead = notification.status === NotificationStatus.READ
IsRead(id) == statusOf[id] = "read"

\* The dependency list of the effect at a render.
Deps(v, read, callback, id) == <<v, read, callback, id>>

\* An effect without a dependency list: its function runs after every render.
DepsChangedAlways(previous, next) == TRUE

\* useEffect: the function of the effect runs after the first render, and
\* after a render whose dependency list differs from the one of the render
\* before it.
DepsChanged(previous, next) == previous = None \/ previous[1] /= next

\* An effect that does not look at the status.
ShouldReadInViewOnly(read, v) == v

\* The condition of the effect: if (!isRead && inView).
ShouldRead(read, v) == ~read /\ v

\* The calls of onRead the effect of a render with these values makes.
EffectCalls(previous, v, read, id, callback) ==
    IF DepsChanged(previous, Deps(v, read, callback, id)) /\ ShouldRead(read, v)
    THEN <<[callback |-> callback, notificationId |-> id]>>
    ELSE <<>>

\* The first render of the item has returned; its effect is still to come.
InitItem ==
    /\ statusOf \in [NotificationIds -> NotificationStatus]
    /\ visible \in BOOLEAN
    /\ notificationId \in NotificationIds
    /\ onRead \in Callbacks
    /\ inView = visible
    /\ isRead = IsRead(notificationId)
    /\ effectPending = TRUE
    /\ deps = None
    /\ effectRan = FALSE
    /\ onReadCalls = <<>>
    /\ sinceChange = 0
    /\ log = <<>>
    /\ IdleServer /\ IdleHandler /\ IdleCourse /\ IdleThunks

unchangedByItem == <<serverVars, handlerVars, courseVars, thunkVars>>

\* The item renders with the notification `id` and onRead `callback`: the
\* render reads inView and the status as they are now, and hands its effect
\* to React. The effect of the render before has run by then.
Render(id, callback) ==
    /\ ~effectPending
    /\ Len(onReadCalls) < MaxCalls
    /\ notificationId' = id
    /\ onRead' = callback
    /\ inView' = visible
    /\ isRead' = IsRead(id)
    /\ effectPending' = TRUE
    /\ effectRan' = FALSE
    /\ UNCHANGED <<statusOf, visible, deps, onReadCalls, sinceChange,
                   unchangedByItem>>

\* React runs the effect of the last render, with the values that render
\* captured, whatever the status and the view have become since.
Effect ==
    LET next == Deps(inView, isRead, onRead, notificationId)
        calls == EffectCalls(deps, inView, isRead, notificationId, onRead)
    IN  /\ effectPending
        /\ effectPending' = FALSE
        /\ deps' = Some(next)
        /\ effectRan' = DepsChanged(deps, next)
        /\ onReadCalls' = onReadCalls \o calls
        /\ sinceChange' = IF deps = None \/ deps[1] /= next THEN Len(calls)
                          ELSE sinceChange + Len(calls)
        /\ UNCHANGED <<statusOf, visible, notificationId, onRead, inView,
                       isRead, unchangedByItem>>

\* The item enters or leaves the view; useInView reports it at the next render.
VisibilityChanges ==
    /\ visible' = ~visible
    /\ UNCHANGED <<statusOf, notificationId, onRead, inView, isRead,
                   effectPending, deps, effectRan, onReadCalls, sinceChange,
                   unchangedByItem>>

\* The parent gives the notification `id` another status, READ or unread;
\* the item sees it at its next render (notification.status is a prop).
StatusUpdated(id, status) ==
    /\ statusOf[id] /= status
    /\ statusOf' = [statusOf EXCEPT ![id] = status]
    /\ UNCHANGED <<visible, notificationId, onRead, inView, isRead,
                   effectPending, deps, effectRan, onReadCalls, sinceChange,
                   unchangedByItem>>

NextItem ==
    \/ \E id \in NotificationIds : \E callback \in Callbacks : Render(id, callback)
    \/ Effect
    \/ VisibilityChanges
    \/ \E id \in NotificationIds : \E status \in NotificationStatus :
           StatusUpdated(id, status)

SpecItem == InitItem /\ [][NextItem]_vars

NewCalls == SubSeq(onReadCalls', Len(onReadCalls) + 1, Len(onReadCalls'))

\* The values of the render before the last: the dependency list the last
\* effect compared with.
SawRead(id) == deps /= None /\ deps[1][2] /\ deps[1][4] = id

\* The step is the effect of the last render.
EffectRuns == effectPending /\ ~effectPending'

\* A call is made by the effect of the last render, with the id and the
\* callback of that render, which saw the notification unread and in view.
CallsOfRender(calls) ==
    \A k \in 1..Len(calls) :
        /\ EffectRuns
        /\ calls[k].notificationId = notificationId'
        /\ calls[k].callback = onRead'
        /\ ~isRead'
        /\ inView'

\* A render sees the status and the view as they are when it runs.
RenderSeesNow ==
    (effectPending' /\ ~effectPending) =>
        /\ isRead' = (statusOf[notificationId'] = "read")
        /\ inView' = visible

\* C9: onRead is called only when the notification shown is not READ and the
\* item is in view, and with the id of that notification; once the item has
\* seen the status of a notification READ, onRead is not called for it again.
C9_NeverAgainOnceRead ==
    [][/\ CallsOfRender(NewCalls)
       /\ RenderSeesNow
       /\ \A k \in 1..Len(NewCalls) : ~SawRead(NewCalls[k].notificationId)]_vars

\* C9, as amended: onRead is called only by the effect of a render, the first
\* included, that saw the notification not READ and the item in view, and with
\* the id of that notification; the status and the view a render sees are
\* those of the moment it runs. A notification seen READ gets no call until a
\* render sees it unread again; the effect of a render that sees it unread
\* again with the item in view calls onRead for it.
C9_ReadOnlyUnreadInView ==
    /\ isRead = (statusOf[notificationId] = "read") /\ inView = visible
    /\ [][/\ CallsOfRender(NewCalls)
          /\ RenderSeesNow
          /\ (EffectRuns /\ SawRead(notificationId) /\ isRead) =>
                 NewCalls = <<>>
          /\ (EffectRuns /\ SawRead(notificationId) /\ ~isRead /\ inView) =>
                 NewCalls = <<[callback |-> onRead, notificationId |-> notificationId]>>
         ]_vars

\* onRead was called twice, the last time for the notification shown; the
\* last render saw it READ and in view, and its effect ran and made no call.
C9_Witness ==
    /\ Len(onReadCalls) >= 2
    /\ isRead
    /\ inView
    /\ ~effectPending
    /\ effectRan
    /\ onReadCalls[Len(onReadCalls)].notificationId = notificationId

\* onRead has been called for the notification `id`.
CalledBefore(id) ==
    \E k \in 1..Len(onReadCalls) : onReadCalls[k].notificationId = id

\* The view, the callback or the id of the last render differ from those of
\* the render before it.
ViewCallbackOrIdChanged ==
    \/ deps = None
    \/ deps[1][1] /= inView
    \/ deps[1][3] /= onRead
    \/ deps[1][4] /= notificationId

\* C10: while the item stays in view and unread with the same notification id
\* and the same onRead, onRead is called at most once, however often the item
\* renders; a further call for a notification needs the view, the callback or
\* the id to change.
C10_OnlyViewCallbackOrId ==
    /\ [](sinceChange <= 1)
    /\ [][(Len(onReadCalls') > Len(onReadCalls) /\ CalledBefore(notificationId)) =>
              /\ Len(onReadCalls') = Len(onReadCalls) + 1
              /\ ViewCallbackOrIdChanged]_vars

\* C10, as amended: while the item stays in view and unread with the same
\* notification id and the same onRead, onRead is called at most once, however
\* often the item renders; every call, a further call for a notification
\* included, needs the view, the callback or the id to change, or the status
\* the item sees to return from READ to unread.
C10_AtMostOncePerChange ==
    /\ [](sinceChange <= 1)
    /\ [][Len(onReadCalls') > Len(onReadCalls) =>
              /\ Len(onReadCalls') = Len(onReadCalls) + 1
              /\ \/ ViewCallbackOrIdChanged
                 \/ deps[1][2] /\ ~isRead]_vars

\* The item has rendered again, in view and unread, with nothing changed since
\* the one call of onRead: the function of the effect did not run, and the
\* item can render again.
C10_Witness ==
    /\ inView /\ ~isRead
    /\ sinceChange = 1
    /\ ~effectPending
    /\ ~effectRan
    /\ Len(onReadCalls) < MaxCalls

====
